---- MODULE Spec2Model ----
(***************************************************************************)
(* Model of scripts/merge_goal_data.py: load_hockey_reference,             *)
(* load_moneypuck_goals, merge_data, rebuild_stats and main.               *)
(*                                                                         *)
(* Python values are modelled as follows.  A str is the sequence of its    *)
(* characters (<<"0","8",":","1","5">> is "08:15"), so that len, slicing,  *)
(* split, int() and float() are computed character by character.  None is  *)
(* the value NULL.  A float is kept as the characters of its repr.         *)
(* A dict read only by key is a function over its keys; a dict whose       *)
(* insertion order is read (the aggregates of rebuild_stats) is a sequence *)
(* of <<key, count>> pairs.                                                *)
(*                                                                         *)
(* Input A is taken to be well-formed JSON whose goals carry every key     *)
(* (a value may be null); period and time are strings or null.             *)
(***************************************************************************)
EXTENDS Integers, Sequences, FiniteSets, TLC

(* ------------------------------ values -------------------------------- *)

\* None: a one-element sequence whose element is no character, hence
\* different from every str.
NULL == <<"None">>

\* Python truthiness of a str-or-None value.
Truthy(v) == v # NULL /\ v # <<>>

\* a or b
Or(a, b) == IF Truthy(a) THEN a ELSE b

\* f"{v}" of a str-or-None value.
Str(v) == IF v = NULL THEN <<"N", "o", "n", "e">> ELSE v

Digits == <<"0", "1", "2", "3", "4", "5", "6", "7", "8", "9">>

DigitSet == {Digits[i] : i \in 1..10}

DigitVal(c) == (CHOOSE i \in 1..10 : Digits[i] = c) - 1

Lower == <<"a", "b", "c", "d", "e", "f", "g", "h", "i", "j", "k", "l", "m",
           "n", "o", "p", "q", "r", "s", "t", "u", "v", "w", "x", "y", "z">>

Upper == <<"A", "B", "C", "D", "E", "F", "G", "H", "I", "J", "K", "L", "M",
           "N", "O", "P", "Q", "R", "S", "T", "U", "V", "W", "X", "Y", "Z">>

UpperChar(c) ==
    IF \E i \in 1..26 : Lower[i] = c
    THEN Upper[CHOOSE i \in 1..26 : Lower[i] = c]
    ELSE c

\* str.upper()
StrUpper(s) == [i \in 1..Len(s) |-> UpperChar(s[i])]

\* s[a:b] with 0 <= a <= b, clipped to len(s) as Python slices are.
Slice(s, a, b) ==
    LET hi == IF b > Len(s) THEN Len(s) ELSE b
    IN  IF a >= hi THEN <<>> ELSE SubSeq(s, a + 1, hi)

\* c in s
Contains(s, c) == \E i \in 1..Len(s) : s[i] = c

\* s.split(c) for a one-character separator c.
RECURSIVE Split(_, _)
Split(s, c) ==
    IF ~Contains(s, c)
    THEN <<s>>
    ELSE LET k == CHOOSE i \in 1..Len(s) :
                      s[i] = c /\ \A j \in 1..(i - 1) : s[j] # c
         IN  <<SubSeq(s, 1, k - 1)>> \o Split(SubSeq(s, k + 1, Len(s)), c)

\* f"{s:0>2}": s right-aligned in a field of width 2, filled with "0".
PadLeft2(s) ==
    IF Len(s) >= 2 THEN s
    ELSE IF Len(s) = 1 THEN <<"0">> \o s
    ELSE <<"0", "0">>

\* str.strip() restricted to the blank character.
RECURSIVE StripBlanks(_)
StripBlanks(s) ==
    IF s = <<>> THEN s
    ELSE IF Head(s) = " " THEN StripBlanks(Tail(s))
    ELSE IF s[Len(s)] = " " THEN StripBlanks(SubSeq(s, 1, Len(s) - 1))
    ELSE s

HasSign(s) == s # <<>> /\ Head(s) \in {"+", "-"}

Unsigned(s) == IF HasSign(s) THEN Tail(s) ELSE s

AllDigits(s) == \A i \in 1..Len(s) : s[i] \in DigitSet

\* The digits of an int literal body: digits with single underscores
\* between them.
IntBodyOk(s) ==
    /\ s # <<>>
    /\ s[1] \in DigitSet
    /\ s[Len(s)] \in DigitSet
    /\ \A i \in 1..Len(s) : s[i] \in DigitSet \cup {"_"}
    /\ \A i \in 1..(Len(s) - 1) : ~(s[i] = "_" /\ s[i + 1] = "_")

\* int(s) does not raise ValueError.
IntParses(s) == IntBodyOk(Unsigned(StripBlanks(s)))

RECURSIVE DigitsValue(_, _)
DigitsValue(s, acc) ==
    IF s = <<>> THEN acc
    ELSE IF Head(s) = "_" THEN DigitsValue(Tail(s), acc)
    ELSE DigitsValue(Tail(s), 10 * acc + DigitVal(Head(s)))

\* int(s), for s with IntParses(s).
IntOf(s) ==
    LET t == StripBlanks(s)
        n == DigitsValue(Unsigned(t), 0)
    IN  IF HasSign(t) /\ Head(t) = "-" THEN 0 - n ELSE n

RECURSIVE NatStr(_)
NatStr(n) ==
    IF n < 10 THEN <<Digits[n + 1]>>
    ELSE NatStr(n \div 10) \o <<Digits[(n % 10) + 1]>>

\* f"{n}" of an int.
IntStr(n) == IF n < 0 THEN <<"-">> \o NatStr(0 - n) ELSE NatStr(n)

(* float(s), restricted to plain decimal literals (optional sign, digits,  *)
(* optional point and digits); the inputs drawn below hold no exponent,    *)
(* underscore, "inf" or "nan".                                             *)
FloatBody(s) == Unsigned(StripBlanks(s))

IntPart(s) == Split(FloatBody(s), ".")[1]

FracPart(s) ==
    LET p == Split(FloatBody(s), ".") IN IF Len(p) = 2 THEN p[2] ELSE <<>>

\* float(s) does not raise ValueError.
FloatParses(s) ==
    /\ Len(Split(FloatBody(s), ".")) <= 2
    /\ AllDigits(IntPart(s))
    /\ AllDigits(FracPart(s))
    /\ Len(IntPart(s)) + Len(FracPart(s)) > 0

RECURSIVE StripLeadingZeros(_)
StripLeadingZeros(s) ==
    IF Len(s) > 1 /\ Head(s) = "0" THEN StripLeadingZeros(Tail(s))
    ELSE IF s = <<>> THEN <<"0">> ELSE s

RECURSIVE StripTrailingZeros(_)
StripTrailingZeros(s) ==
    IF Len(s) > 1 /\ s[Len(s)] = "0"
    THEN StripTrailingZeros(SubSeq(s, 1, Len(s) - 1))
    ELSE IF s = <<>> THEN <<"0">> ELSE s

\* float(s), kept as the characters of its repr, for s with FloatParses(s).
FloatOf(s) ==
    LET t == StripBlanks(s)
        sign == IF HasSign(t) /\ Head(t) = "-" THEN <<"-">> ELSE <<>>
    IN  sign \o StripLeadingZeros(IntPart(s)) \o <<".">>
             \o StripTrailingZeros(FracPart(s))

(* --------------------------- Loader B ---------------------------------- *)

OVI_PLAYER_ID == 8471214

\* row.get(c): a csv.DictReader row is a function over the header's columns.
Get(row, c) == IF c \in DOMAIN row THEN row[c] ELSE NULL

ShooterId(row) == Or(Get(row, "shooterPlayerId"), Get(row, "shooter_id"))

EventOf(row) == Or(Get(row, "event"), Get(row, "Event"))

GOAL == <<"G", "O", "A", "L">>

\* Variant of RowAccepted: no row is skipped.
RowAcceptedNoFilter(row) == TRUE

\* The row is not skipped by either `continue`.
RowAccepted(row) ==
    /\ Str(ShooterId(row)) = IntStr(OVI_PLAYER_ID)
    /\ ~(Truthy(EventOf(row)) /\ StrUpper(EventOf(row)) # GOAL)

GameDate(row) ==
    Or(Or(Get(row, "gameDate"), Get(row, "game_date")), Get(row, "date"))

\* The date normalisation; an IndexError on parts[2] is swallowed by the
\* bare except and leaves game_date as it was.
NormalizeDate(game_date) ==
    IF ~Truthy(game_date) THEN game_date
    ELSE IF Len(game_date) = 8
    THEN Slice(game_date, 0, 4) \o <<"-">> \o Slice(game_date, 4, 6)
             \o <<"-">> \o Slice(game_date, 6, 8)
    ELSE IF Contains(game_date, "/")
    THEN LET parts == Split(game_date, "/")
         IN  IF Len(parts) < 3 THEN game_date
             ELSE parts[3] \o <<"-">> \o PadLeft2(parts[1])
                      \o <<"-">> \o PadLeft2(parts[2])
    ELSE game_date

PeriodOf(row) == Or(Get(row, "period"), Get(row, "Period"))

TimeStr(row) ==
    Or(Or(Get(row, "time"), Get(row, "Time")), Get(row, "periodTime"))

\* f"{date}_{period}_{time}"
JoinKey(date, period, time) ==
    Str(date) \o <<"_">> \o Str(period) \o <<"_">> \o Str(time)

RowKey(row) == JoinKey(NormalizeDate(GameDate(row)), PeriodOf(row), TimeStr(row))

XRaw(row) == Or(Or(Get(row, "xCord"), Get(row, "xCoord")), Get(row, "x"))

YRaw(row) == Or(Or(Get(row, "yCord"), Get(row, "yCoord")), Get(row, "y"))

\* One of the two float() calls of the try block raises ValueError.
CoordsRaise(row) ==
    \/ Truthy(XRaw(row)) /\ ~FloatParses(XRaw(row))
    \/ Truthy(YRaw(row)) /\ ~FloatParses(YRaw(row))

XCoord(row) ==
    IF CoordsRaise(row) THEN NULL
    ELSE IF Truthy(XRaw(row)) THEN FloatOf(XRaw(row)) ELSE NULL

YCoord(row) ==
    IF CoordsRaise(row) THEN NULL
    ELSE IF Truthy(YRaw(row)) THEN FloatOf(YRaw(row)) ELSE NULL

ShotDetail(row) ==
    [xCoord     |-> XCoord(row),
     yCoord     |-> YCoord(row),
     goalieName |-> Or(Or(Get(row, "goalieNameForShot"), Get(row, "goalie_name")),
                       Get(row, "goalieName")),
     shotType   |-> Or(Get(row, "shotType"), Get(row, "shot_type")),
     gameId     |-> Or(Get(row, "game_id"), Get(row, "gameId")),
     homeTeam   |-> Or(Get(row, "homeTeamCode"), Get(row, "home_team")),
     awayTeam   |-> Or(Get(row, "awayTeamCode"), Get(row, "away_team"))]

EmptyDict == [k \in {} |-> NULL]

\* Variant of Put: an existing entry is kept.
PutFirstWins(goals, key, rec) ==
    IF key \in DOMAIN goals THEN goals
    ELSE [k \in DOMAIN goals \cup {key} |-> IF k = key THEN rec ELSE goals[k]]

\* goals[key] = rec
Put(goals, key, rec) ==
    [k \in DOMAIN goals \cup {key} |-> IF k = key THEN rec ELSE goals[k]]

(* ----------------------------- Merger ---------------------------------- *)

\* key = f"{hr_date}_{period}_{time}"
GoalKey(goal) == JoinKey(goal.date, goal.period, goal.time)

TimeParts(time) == Split(time, ":")

\* Variant of AltTime: the hour part is not re-rendered.
AltTimeKeepZero(time) == time

\* alt_time = f"{int(time_parts[0])}:{time_parts[1]}"
AltTime(time) ==
    IntStr(IntOf(TimeParts(time)[1])) \o <<":">> \o TimeParts(time)[2]

AltKey(goal) == JoinKey(goal.date, goal.period, AltTime(goal.time))

\* The loop body raises: None.split (AttributeError) or int() of a part
\* that is no integer literal (ValueError); both only after a primary miss.
GoalRaises(goal, mp) ==
    /\ GoalKey(goal) \notin DOMAIN mp
    /\ \/ goal.time = NULL
       \/ /\ Len(TimeParts(goal.time)) = 2
          /\ ~IntParses(TimeParts(goal.time)[1])

\* Variant of Lookup: the fallback key is tried before the primary key.
LookupFallbackFirst(goal, mp) ==
    IF Len(TimeParts(goal.time)) = 2 /\ AltKey(goal) \in DOMAIN mp
    THEN <<mp[AltKey(goal)]>>
    ELSE IF GoalKey(goal) \in DOMAIN mp THEN <<mp[GoalKey(goal)]>>
    ELSE <<>>

\* mp_data after both lookups: <<record>>, or <<>> for None.
Lookup(goal, mp) ==
    IF GoalKey(goal) \in DOMAIN mp THEN <<mp[GoalKey(goal)]>>
    ELSE IF Len(TimeParts(goal.time)) = 2 /\ AltKey(goal) \in DOMAIN mp
    THEN <<mp[AltKey(goal)]>>
    ELSE <<>>

MergedGoal(goal, mp_data) ==
    [careerGoalNum   |-> goal.careerGoalNum,
     date            |-> goal.date,
     season          |-> goal.season,
     seasonDisplay   |-> goal.seasonDisplay,
     opponent        |-> goal.opponent,
     period          |-> goal.period,
     time            |-> goal.time,
     goalType        |-> goal.goalType,
     primaryAssist   |-> goal.primaryAssist,
     secondaryAssist |-> goal.secondaryAssist,
     isPlayoffs      |-> goal.isPlayoffs,
     xCoord     |-> IF mp_data # <<>> THEN mp_data[1].xCoord ELSE NULL,
     yCoord     |-> IF mp_data # <<>> THEN mp_data[1].yCoord ELSE NULL,
     goalieName |-> IF mp_data # <<>> THEN mp_data[1].goalieName ELSE NULL,
     shotType   |-> IF mp_data # <<>> THEN mp_data[1].shotType ELSE NULL]

\* Variant of AppendGoal: the record is put in front.
AppendGoalFront(merged_goals, merged_goal) == <<merged_goal>> \o merged_goals

\* merged_goals.append(merged_goal)
AppendGoal(merged_goals, merged_goal) == Append(merged_goals, merged_goal)

(* ---------------------------- Aggregator ------------------------------- *)

\* Variant of RegularGoals: playoff records are kept.
RegularGoalsAll(goals) == goals

\* regular_goals = [g for g in goals if not g.get('isPlayoffs')]
RegularGoals(goals) == SelectSeq(goals, LAMBDA g : ~g.isPlayoffs)

\* stats[name][k] += 1 on a defaultdict(int), kept in insertion order.
Incr(agg, k) ==
    IF \E j \in 1..Len(agg) : agg[j][1] = k
    THEN LET j == CHOOSE j \in 1..Len(agg) : agg[j][1] = k
         IN  [agg EXCEPT ![j] = <<k, agg[j][2] + 1>>]
    ELSE Append(agg, <<k, 1>>)

\* if goal.get(field): stats[name][goal[field]] += 1
IncrIf(agg, v) == IF Truthy(v) THEN Incr(agg, v) ELSE agg

FieldOf(g, f) ==
    CASE f = "season"          -> g.season
      [] f = "opponent"        -> g.opponent
      [] f = "goalType"        -> g.goalType
      [] f = "goalieName"      -> g.goalieName
      [] f = "shotType"        -> g.shotType
      [] f = "primaryAssist"   -> g.primaryAssist
      [] f = "secondaryAssist" -> g.secondaryAssist

\* The loop of rebuild_stats for the aggregate fed by the fields fs.
RECURSIVE CountBy(_, _, _)
CountBy(goals, fs, agg) ==
    IF goals = <<>> THEN agg
    ELSE LET g  == Head(goals)
             a1 == IncrIf(agg, FieldOf(g, fs[1]))
             a2 == IF Len(fs) = 2 THEN IncrIf(a1, FieldOf(g, fs[2])) ELSE a1
         IN  CountBy(Tail(goals), fs, a2)

\* One item put into a list sorted by descending count, after its equals.
InsertDesc(sorted, item) ==
    LET k == Cardinality({j \in 1..Len(sorted) : sorted[j][2] >= item[2]})
    IN  SubSeq(sorted, 1, k) \o <<item>> \o SubSeq(sorted, k + 1, Len(sorted))

\* sorted(items, key=lambda x: x[1], reverse=True): stable.
RECURSIVE SortedDesc(_, _)
SortedDesc(items, acc) ==
    IF items = <<>> THEN acc
    ELSE SortedDesc(Tail(items), InsertDesc(acc, Head(items)))

TopAssisters == 20

TopGoalies == 20

TopOpponents == 10

rebuild_stats(goals) ==
    LET regular_goals == RegularGoals(goals)
        bySeason    == CountBy(regular_goals, <<"season">>, <<>>)
        byOpponent  == CountBy(regular_goals, <<"opponent">>, <<>>)
        byGoalType  == CountBy(regular_goals, <<"goalType">>, <<>>)
        byGoalie    == CountBy(regular_goals, <<"goalieName">>, <<>>)
        byShotType  == CountBy(regular_goals, <<"shotType">>, <<>>)
        byAnyAssist ==
            CountBy(regular_goals, <<"primaryAssist", "secondaryAssist">>, <<>>)
    IN  [bySeason     |-> bySeason,
         byOpponent   |-> byOpponent,
         byGoalType   |-> byGoalType,
         byGoalie     |-> byGoalie,
         byAnyAssist  |-> byAnyAssist,
         byShotType   |-> byShotType,
         topAssisters |-> Slice(SortedDesc(byAnyAssist, <<>>), 0, TopAssisters),
         topGoalies   |-> Slice(SortedDesc(byGoalie, <<>>), 0, TopGoalies),
         topOpponents |-> Slice(SortedDesc(byOpponent, <<>>), 0, TopOpponents)]

\* The document merge_data returns (mergedAt, the clock reading, and the
\* fixed player and sources strings are left out).
MergedDocument(merged_goals, matched) ==
    [metadata |->
        [playerId             |-> OVI_PLAYER_ID,
         regularSeasonGoals   |->
             Len(SelectSeq(merged_goals, LAMBDA g : ~g.isPlayoffs)),
         playoffGoals         |->
             Len(SelectSeq(merged_goals, LAMBDA g : g.isPlayoffs)),
         goalsWithCoordinates |-> matched],
     stats |-> rebuild_stats(merged_goals),
     goals |-> merged_goals]

(* ------------------------------ inputs --------------------------------- *)

\* The longest Input A `goals` sequence and Input B row sequence drawn.
MaxEvents == 2

MaxRows == 2

SeqsUpTo(S, n) == UNION {[1..k -> S] : k \in 0..n}

OVI == <<"8", "4", "7", "1", "2", "1", "4">>

NOT_OVI == <<"8", "4", "7", "1", "2", "1", "5">>

D_ISO == <<"2", "0", "0", "5", "-", "1", "0", "-", "0", "5">>

D_RAW == <<"2", "0", "0", "5", "1", "0", "0", "5">>

T_0815 == <<"0", "8", ":", "1", "5">>

T_815 == <<"8", ":", "1", "5">>

P1 == <<"1">>

BOS == <<"B", "O", "S">>

NYR == <<"N", "Y", "R">>

\* A row under the first column names of each synonym list.
Row(shooter, event, date, time, x, y, goalie) ==
    [shooterPlayerId   |-> shooter,
     event             |-> event,
     gameDate          |-> date,
     period            |-> P1,
     time              |-> time,
     xCord             |-> x,
     yCord             |-> y,
     goalieNameForShot |-> goalie,
     shotType          |-> <<"W">>]

\* The same row under the later column names of each synonym list.
RowAlt(shooter, event, date, time, x, y, goalie) ==
    [shooter_id  |-> shooter,
     Event       |-> event,
     date        |-> date,
     Period      |-> P1,
     periodTime  |-> time,
     x           |-> x,
     y           |-> y,
     goalieName  |-> goalie,
     shot_type   |-> <<"W">>]

Event(n, time, opponent, playoffs) ==
    [careerGoalNum   |-> n,
     date            |-> D_ISO,
     season          |-> <<"0", "6">>,
     seasonDisplay   |-> <<"0", "5", "-", "0", "6">>,
     opponent        |-> opponent,
     period          |-> P1,
     time            |-> time,
     goalType        |-> <<"E", "V">>,
     primaryAssist   |-> <<"Z">>,
     secondaryAssist |-> NULL,
     isPlayoffs      |-> playoffs]

\* Input A as a file: absent, or a JSON document that is {} or holds `goals`.
HrFile(exists, kind, goals) == [exists |-> exists, kind |-> kind, goals |-> goals]

HrFiles(events) ==
    {HrFile(FALSE, "None", <<>>), HrFile(TRUE, "empty", <<>>)}
        \cup {HrFile(TRUE, "dict", g) : g \in SeqsUpTo(events, MaxEvents)}

MpFile(exists, rows) == [exists |-> exists, rows |-> rows]

MpFiles(rows) ==
    {MpFile(FALSE, <<>>)} \cup {MpFile(TRUE, r) : r \in SeqsUpTo(rows, MaxRows)}

(* --------------------------- state machine ----------------------------- *)

VARIABLES
    hrFile,        \* Input A on disk
    mpFile,        \* Input B on disk
    pc,            \* position in main
    hr_data,       \* main's hr_data: [kind, goals], kind "None" for None
    mp_goals,      \* the JoinKey -> shot-detail mapping
    row_i,         \* position of load_moneypuck_goals' reader
    goal_i,        \* position of merge_data's loop
    merged_goals,
    matched,
    unmatched,
    merged,        \* main's merged: <<document>> once merge_data returned
    output,        \* the output file: <<>> until written, then <<document>>
    outcome        \* "running", "written", "aborted" or "exception"

vars == <<hrFile, mpFile, pc, hr_data, mp_goals, row_i, goal_i, merged_goals,
          matched, unmatched, merged, output, outcome>>

Start(hrFiles, mpFiles) ==
    /\ hrFile \in hrFiles
    /\ mpFile \in mpFiles
    /\ pc = "load_hr"
    /\ hr_data = [kind |-> "None", goals |-> <<>>]
    /\ mp_goals = EmptyDict
    /\ row_i = 1
    /\ goal_i = 1
    /\ merged_goals = <<>>
    /\ matched = 0
    /\ unmatched = 0
    /\ merged = <<>>
    /\ output = <<>>
    /\ outcome = "running"

\* not hr_data
Falsy(doc) == doc.kind # "dict"

\* hr_data = load_hockey_reference()
LoadHockeyReference ==
    /\ pc = "load_hr"
    /\ hr_data' = IF hrFile.exists
                  THEN [kind |-> hrFile.kind, goals |-> hrFile.goals]
                  ELSE [kind |-> "None", goals |-> <<>>]
    /\ pc' = "load_mp"
    /\ UNCHANGED <<hrFile, mpFile, mp_goals, row_i, goal_i, merged_goals,
                   matched, unmatched, merged, output, outcome>>

\* load_moneypuck_goals, file absent: return {}
LoadMoneypuckAbsent ==
    /\ pc = "load_mp"
    /\ ~mpFile.exists
    /\ mp_goals' = EmptyDict
    /\ pc' = "main_check"
    /\ UNCHANGED <<hrFile, mpFile, hr_data, row_i, goal_i, merged_goals,
                   matched, unmatched, merged, output, outcome>>

\* load_moneypuck_goals, file present: goals = {} and the reader opened
LoadMoneypuckOpen ==
    /\ pc = "load_mp"
    /\ mpFile.exists
    /\ mp_goals' = EmptyDict
    /\ row_i' = 1
    /\ pc' = "mp_rows"
    /\ UNCHANGED <<hrFile, mpFile, hr_data, goal_i, merged_goals,
                   matched, unmatched, merged, output, outcome>>

\* One row skipped by a `continue`.
LoadRowSkip ==
    /\ pc = "mp_rows"
    /\ row_i <= Len(mpFile.rows)
    /\ ~RowAccepted(mpFile.rows[row_i])
    /\ row_i' = row_i + 1
    /\ UNCHANGED <<hrFile, mpFile, pc, hr_data, mp_goals, goal_i, merged_goals,
                   matched, unmatched, merged, output, outcome>>

\* One row stored: goals[key] = {...}
LoadRowStore ==
    /\ pc = "mp_rows"
    /\ row_i <= Len(mpFile.rows)
    /\ RowAccepted(mpFile.rows[row_i])
    /\ mp_goals' = Put(mp_goals, RowKey(mpFile.rows[row_i]),
                       ShotDetail(mpFile.rows[row_i]))
    /\ row_i' = row_i + 1
    /\ UNCHANGED <<hrFile, mpFile, pc, hr_data, goal_i, merged_goals,
                   matched, unmatched, merged, output, outcome>>

\* return goals
LoadMoneypuckReturn ==
    /\ pc = "mp_rows"
    /\ row_i > Len(mpFile.rows)
    /\ pc' = "main_check"
    /\ UNCHANGED <<hrFile, mpFile, hr_data, mp_goals, row_i, goal_i,
                   merged_goals, matched, unmatched, merged, output, outcome>>

\* main: if not hr_data: print the diagnostic and return
MainAbort ==
    /\ pc = "main_check"
    /\ Falsy(hr_data)
    /\ outcome' = "aborted"
    /\ pc' = "done"
    /\ UNCHANGED <<hrFile, mpFile, hr_data, mp_goals, row_i, goal_i,
                   merged_goals, matched, unmatched, merged, output>>

\* main calls merge_data, which starts its loop (hr_data is truthy here, so
\* merge_data's own `if not hr_data` never returns None)
MergeStart ==
    /\ pc = "main_check"
    /\ ~Falsy(hr_data)
    /\ merged_goals' = <<>>
    /\ matched' = 0
    /\ unmatched' = 0
    /\ goal_i' = 1
    /\ pc' = "merge_loop"
    /\ UNCHANGED <<hrFile, mpFile, hr_data, mp_goals, row_i, merged, output,
                   outcome>>

\* One iteration of merge_data's loop.
MergeGoal ==
    /\ pc = "merge_loop"
    /\ goal_i <= Len(hr_data.goals)
    /\ ~GoalRaises(hr_data.goals[goal_i], mp_goals)
    /\ LET goal    == hr_data.goals[goal_i]
           mp_data == Lookup(goal, mp_goals)
       IN  /\ merged_goals' = AppendGoal(merged_goals, MergedGoal(goal, mp_data))
           /\ matched' = IF mp_data # <<>> THEN matched + 1 ELSE matched
           /\ unmatched' = IF mp_data # <<>> THEN unmatched ELSE unmatched + 1
    /\ goal_i' = goal_i + 1
    /\ UNCHANGED <<hrFile, mpFile, pc, hr_data, mp_goals, row_i, merged,
                   output, outcome>>

\* One iteration that raises; nothing catches it and the process ends.
MergeGoalRaise ==
    /\ pc = "merge_loop"
    /\ goal_i <= Len(hr_data.goals)
    /\ GoalRaises(hr_data.goals[goal_i], mp_goals)
    /\ outcome' = "exception"
    /\ pc' = "done"
    /\ UNCHANGED <<hrFile, mpFile, hr_data, mp_goals, row_i, goal_i,
                   merged_goals, matched, unmatched, merged, output>>

\* merge_data returns its document
MergeReturn ==
    /\ pc = "merge_loop"
    /\ goal_i > Len(hr_data.goals)
    /\ merged' = <<MergedDocument(merged_goals, matched)>>
    /\ pc' = "write"
    /\ UNCHANGED <<hrFile, mpFile, hr_data, mp_goals, row_i, goal_i,
                   merged_goals, matched, unmatched, output, outcome>>

\* main: json.dump(merged, f)
WriteOutput ==
    /\ pc = "write"
    /\ merged # <<>>
    /\ output' = merged
    /\ outcome' = "written"
    /\ pc' = "done"
    /\ UNCHANGED <<hrFile, mpFile, hr_data, mp_goals, row_i, goal_i,
                   merged_goals, matched, unmatched, merged>>

(* The whole program, over small inputs of every kind. *)

MainRows ==
    {Row(OVI, <<"g", "o", "a", "l">>, D_RAW, T_815, <<"1", ".", "5">>, <<"3">>, <<"H">>),
     Row(OVI, <<"g", "o", "a", "l">>, D_RAW, T_0815, <<"2">>, <<"3">>, <<"H">>),
     Row(OVI, <<>>, D_RAW, T_815, <<>>, <<>>, <<"L">>),
     Row(NOT_OVI, GOAL, D_RAW, T_815, <<"9">>, <<"9">>, <<"K">>)}

MainEvents ==
    {Event(1, T_0815, BOS, FALSE),
     Event(2, T_815, BOS, FALSE),
     Event(3, <<"x", ":", "1", "5">>, BOS, FALSE),
     Event(4, NULL, BOS, FALSE),
     Event(5, <<"8", ":", "1", "5", ":", "0", "0">>, NYR, TRUE)}

Init == Start(HrFiles(MainEvents), MpFiles(MainRows))

Next ==
    \/ LoadHockeyReference
    \/ LoadMoneypuckAbsent
    \/ LoadMoneypuckOpen
    \/ LoadRowSkip
    \/ LoadRowStore
    \/ LoadMoneypuckReturn
    \/ MainAbort
    \/ MergeStart
    \/ MergeGoal
    \/ MergeGoalRaise
    \/ MergeReturn
    \/ WriteOutput

Spec == Init /\ [][Next]_vars

(* ------------------------- claims under Spec --------------------------- *)

\* The documents produced so far: merge_data's return value and the file.
Documents == {merged[k] : k \in 1..Len(merged)} \cup {output[k] : k \in 1..Len(output)}

SameEvent(m, e) ==
    /\ m.date = e.date
    /\ m.period = e.period
    /\ m.time = e.time
    /\ m.careerGoalNum = e.careerGoalNum

\* C1: every document merge_data returns holds exactly one record per
\* EventRecord of Input A, in input order: the i-th MergedRecord carries the
\* date, period, time and careerGoalNum of the i-th EventRecord.
C1_OneRecordPerEvent ==
    \A d \in Documents :
        /\ Len(d.goals) = Len(hrFile.goals)
        /\ \A i \in 1..Len(d.goals) : SameEvent(d.goals[i], hrFile.goals[i])

\* A written output of two different events, the first matched, the second not.
C1_Witness ==
    /\ outcome = "written"
    /\ Len(output[1].goals) = 2
    /\ hrFile.goals[1] # hrFile.goals[2]
    /\ output[1].goals[1].xCoord # NULL
    /\ output[1].goals[2].xCoord = NULL
    /\ mpFile.exists

\* The shooter/event filter, read off the row's first-named columns.
PassesFilter(row) ==
    /\ Get(row, "shooterPlayerId") = OVI
    /\ Get(row, "event") \in {NULL, <<>>}
           \/ StrUpper(Get(row, "event")) = <<"G", "O", "A", "L">>

\* The hour part re-rendered without leading zeros, for an hour of digits.
FallbackTime(time) ==
    StripLeadingZeros(Split(time, ":")[1]) \o <<":">> \o Split(time, ":")[2]

HasFallback(time) ==
    /\ time # NULL
    /\ Len(Split(time, ":")) = 2
    /\ Split(time, ":")[1] # <<>>
    /\ AllDigits(Split(time, ":")[1])

\* The primary key of a record and, where it has one, its fallback key.
EventKeys(g) ==
    {JoinKey(g.date, g.period, g.time)}
        \cup IF HasFallback(g.time)
             THEN {JoinKey(g.date, g.period, FallbackTime(g.time))}
             ELSE {}

\* C2: a MergedRecord with a non-null xCoord has a row of Input B that
\* passes the shooter/event filter, whose JoinKey is the record's primary or
\* fallback key and whose parsed x coordinate is the record's xCoord.
C2_CoordinatesFromInputB ==
    \A i \in 1..Len(merged_goals) :
        merged_goals[i].xCoord # NULL =>
            \E j \in 1..Len(mpFile.rows) :
                /\ PassesFilter(mpFile.rows[j])
                /\ RowKey(mpFile.rows[j]) \in EventKeys(merged_goals[i])
                /\ XCoord(mpFile.rows[j]) = merged_goals[i].xCoord

\* A record with coordinates, merged from a file that also holds a row the
\* filter rejects under the same key.
C2_Witness ==
    /\ outcome = "written"
    /\ \E i \in 1..Len(output[1].goals) : output[1].goals[i].xCoord # NULL
    /\ \E j \in 1..Len(mpFile.rows) :
           /\ ~PassesFilter(mpFile.rows[j])
           /\ RowKey(mpFile.rows[j]) \in EventKeys(hrFile.goals[1])

ShotFields(r) ==
    [xCoord |-> r.xCoord, yCoord |-> r.yCoord,
     goalieName |-> r.goalieName, shotType |-> r.shotType]

\* C4: a merged record whose primary key is in the mapping carries that
\* entry's shot fields; one whose primary key is absent and whose time has
\* exactly two parts carries the fields of the entry keyed with the hour
\* re-rendered without leading zero, when there is one.
C4_FallbackAfterPrimary ==
    \A i \in 1..Len(merged_goals) :
        LET m       == merged_goals[i]
            primary == JoinKey(m.date, m.period, m.time)
            alt     == JoinKey(m.date, m.period, FallbackTime(m.time))
        IN  /\ primary \in DOMAIN mp_goals =>
                   ShotFields(m) = ShotFields(mp_goals[primary])
            /\ primary \notin DOMAIN mp_goals /\ HasFallback(m.time)
                   /\ alt \in DOMAIN mp_goals =>
                   ShotFields(m) = ShotFields(mp_goals[alt])

\* Event time "08:15" merged with the entry keyed "8:15" after a primary miss.
C4_Witness ==
    /\ outcome = "written"
    /\ \E i \in 1..Len(output[1].goals) :
           /\ output[1].goals[i].time = T_0815
           /\ JoinKey(D_ISO, P1, T_0815) \notin DOMAIN mp_goals
           /\ JoinKey(D_ISO, P1, T_815) \in DOMAIN mp_goals
           /\ output[1].goals[i].xCoord # NULL

\* C5 as stated: a run over a present Input A document ends with the output
\* written, whatever its fields hold, and no run ends by an exception.
C5_AlwaysCompletes ==
    /\ outcome # "exception"
    /\ pc = "done" /\ hrFile.exists /\ hrFile.kind = "dict" =>
           outcome = "written"

\* C7 as stated: with Input B absent and an Input A document present the
\* run writes the output, every shot-derived field is null and
\* goalsWithCoordinates is 0.
C7_MissingInputB ==
    pc = "done" /\ ~mpFile.exists /\ hrFile.exists /\ hrFile.kind = "dict" =>
        /\ outcome = "written"
        /\ output # <<>>
        /\ \A i \in 1..Len(output[1].goals) :
               ShotFields(output[1].goals[i]) =
                   [xCoord |-> NULL, yCoord |-> NULL,
                    goalieName |-> NULL, shotType |-> NULL]
        /\ output[1].metadata.goalsWithCoordinates = 0

\* C8 as stated: goalsWithCoordinates is the number of records of `goals`
\* whose xCoord is non-null.
C8_CountsNonNullX ==
    \A d \in Documents :
        d.metadata.goalsWithCoordinates =
            Cardinality({i \in 1..Len(d.goals) : d.goals[i].xCoord # NULL})

\* The rows read so far that were stored.
Stored == {j \in 1..(row_i - 1) : PassesFilter(mpFile.rows[j])}

LastStored(key) ==
    CHOOSE j \in Stored :
        /\ RowKey(mpFile.rows[j]) = key
        /\ \A k \in Stored : RowKey(mpFile.rows[k]) = key => k <= j

\* C10: the mapping holds one entry per distinct JoinKey of the accepted
\* rows read so far, each the shot detail of the last such row, and a merged
\* record whose primary key is in the mapping carries that last row's fields.
C10_LastRowWins ==
    /\ DOMAIN mp_goals = {RowKey(mpFile.rows[j]) : j \in Stored}
    /\ \A key \in DOMAIN mp_goals :
           mp_goals[key] = ShotDetail(mpFile.rows[LastStored(key)])
    /\ \A i \in 1..Len(merged_goals) :
           LET key == JoinKey(merged_goals[i].date, merged_goals[i].period,
                              merged_goals[i].time)
           IN  key \in DOMAIN mp_goals =>
                   ShotFields(merged_goals[i]) =
                       ShotFields(ShotDetail(mpFile.rows[LastStored(key)]))

\* Two accepted rows of one key and different x, and an event matched to it.
C10_Witness ==
    /\ outcome = "written"
    /\ Len(mpFile.rows) = 2
    /\ PassesFilter(mpFile.rows[1])
    /\ PassesFilter(mpFile.rows[2])
    /\ RowKey(mpFile.rows[1]) = RowKey(mpFile.rows[2])
    /\ XCoord(mpFile.rows[1]) # XCoord(mpFile.rows[2])
    /\ Cardinality(DOMAIN mp_goals) = 1
    /\ \E i \in 1..Len(output[1].goals) :
           /\ JoinKey(D_ISO, P1, output[1].goals[i].time) \in DOMAIN mp_goals
           /\ output[1].goals[i].xCoord = XCoord(mpFile.rows[2])

(* ------------- the aggregator over opponents and playoffs -------------- *)

StatsEvents ==
    {Event(1, T_815, o, p) : o \in {<<>>, NULL, BOS, NYR}, p \in BOOLEAN}

StatsRows == {Row(OVI, GOAL, D_RAW, T_815, <<"2">>, <<"3">>, <<"H">>)}

InitStats ==
    Start({HrFile(TRUE, "dict", g) : g \in SeqsUpTo(StatsEvents, MaxEvents)},
          MpFiles(StatsRows))

NextStats ==
    \/ LoadHockeyReference
    \/ LoadMoneypuckAbsent
    \/ LoadMoneypuckOpen
    \/ LoadRowStore
    \/ LoadMoneypuckReturn
    \/ MergeStart
    \/ MergeGoal
    \/ MergeReturn
    \/ WriteOutput

SpecStats == InitStats /\ [][NextStats]_vars

RECURSIVE SumCounts(_)
SumCounts(agg) == IF agg = <<>> THEN 0 ELSE Head(agg)[2] + SumCounts(Tail(agg))

\* The non-playoff records of `goals` whose field f is non-empty.
RegularWith(goals, f) ==
    {i \in 1..Len(goals) : ~goals[i].isPlayoffs /\ Truthy(FieldOf(goals[i], f))}

\* C6: byOpponent has one entry per opponent of a non-playoff record, its
\* count the number of non-playoff records of that opponent, so its values
\* sum to the number of non-playoff records with a non-empty opponent; and
\* every aggregate totals its non-playoff records only.
C6_ByOpponentCounts ==
    \A d \in Documents :
        LET by == d.stats.byOpponent
            g  == d.goals
        IN  /\ SumCounts(by) = Cardinality(RegularWith(g, "opponent"))
            /\ \A a, b \in 1..Len(by) : by[a][1] = by[b][1] => a = b
            /\ {by[a][1] : a \in 1..Len(by)} =
                   {g[i].opponent : i \in RegularWith(g, "opponent")}
            /\ \A a \in 1..Len(by) :
                   by[a][2] = Cardinality({i \in 1..Len(g) :
                       ~g[i].isPlayoffs /\ g[i].opponent = by[a][1]})
            /\ SumCounts(d.stats.bySeason) = Cardinality(RegularWith(g, "season"))
            /\ SumCounts(d.stats.byGoalType) = Cardinality(RegularWith(g, "goalType"))
            /\ SumCounts(d.stats.byGoalie) = Cardinality(RegularWith(g, "goalieName"))
            /\ SumCounts(d.stats.byShotType) = Cardinality(RegularWith(g, "shotType"))
            /\ SumCounts(d.stats.byAnyAssist) =
                   Cardinality(RegularWith(g, "primaryAssist"))
                       + Cardinality(RegularWith(g, "secondaryAssist"))

\* A written output with a playoff record and a non-playoff record, both of
\* opponent BOS, counted once.
C6_Witness ==
    /\ outcome = "written"
    /\ \E i, j \in 1..Len(output[1].goals) :
           /\ output[1].goals[i].isPlayoffs
           /\ output[1].goals[i].opponent = BOS
           /\ ~output[1].goals[j].isPlayoffs
           /\ output[1].goals[j].opponent = BOS
    /\ output[1].stats.byOpponent = <<<<BOS, 1>>>>

(* ---------------- Loader B over dates and coordinates ------------------ *)

SLASH == <<"/">>

Y2005 == <<"2", "0", "0", "5">>

\* Raw dates: YYYYMMDD, M/D/YYYY in every combination of digit counts, and
\* dates of no known form.
DateSet ==
    {D_RAW, <<"2", "0", "0", "6", "0", "1", "1", "3">>, D_ISO,
     <<"1", "0", "/", "5">>, <<"1", "/", "5", "/", "0", "5">>, <<>>, NULL}
    \cup {m \o SLASH \o d \o SLASH \o Y2005 :
             m \in {<<"1">>, <<"0", "1">>, <<"1", "0">>},
             d \in {<<"5">>, <<"0", "5">>, <<"1", "5">>}}

\* Raw coordinates: empty, absent, parseable and unparseable.
CoordSet ==
    {<<>>, NULL, <<"0">>, <<"1", ".", "5">>, <<"-", "3">>,
     <<"0", "1", "2", ".", "5", "0">>, <<"a", "b", "c">>}

LoaderRows ==
    {Row(OVI, GOAL, date, T_815, <<"2">>, <<"3">>, <<"H">>) : date \in DateSet}
    \cup {RowAlt(OVI, GOAL, date, T_815, <<"2">>, <<"3">>, <<"H">>) :
             date \in DateSet}
    \cup {Row(OVI, <<>>, D_RAW, T_815, x, y, <<"H">>) :
             x \in CoordSet, y \in CoordSet}
    \cup {RowAlt(OVI, NULL, D_RAW, T_815, x, y, <<"H">>) :
             x \in CoordSet, y \in CoordSet}
    \cup {Row(NOT_OVI, GOAL, D_RAW, T_815, <<"2">>, <<"3">>, <<"H">>),
          Row(NULL, GOAL, D_RAW, T_815, <<"2">>, <<"3">>, <<"H">>),
          RowAlt(OVI, <<"S", "h", "o", "t">>, D_RAW, T_815, <<"2">>, <<"3">>,
                 <<"H">>)}

InitLoader ==
    Start({HrFile(FALSE, "None", <<>>)},
          {MpFile(FALSE, <<>>)} \cup {MpFile(TRUE, <<r>>) : r \in LoaderRows})

NextLoader ==
    \/ LoadHockeyReference
    \/ LoadMoneypuckAbsent
    \/ LoadMoneypuckOpen
    \/ LoadRowSkip
    \/ LoadRowStore
    \/ LoadMoneypuckReturn
    \/ MainAbort

SpecLoader == InitLoader /\ [][NextLoader]_vars

Dash == <<"-">>

IsYYYYMMDD(raw) == raw # NULL /\ Len(raw) = 8 /\ AllDigits(raw)

\* M/D/YYYY with month and day of one or two digits.
IsSlashDate(raw) ==
    /\ raw # NULL
    /\ Len(Split(raw, "/")) = 3
    /\ \A k \in 1..3 : AllDigits(Split(raw, "/")[k])
    /\ Len(Split(raw, "/")[1]) \in {1, 2}
    /\ Len(Split(raw, "/")[2]) \in {1, 2}
    /\ Len(Split(raw, "/")[3]) = 4

\* YYYY-MM-DD as the claim gives it for either form.
IsoDate(raw) ==
    IF IsYYYYMMDD(raw)
    THEN SubSeq(raw, 1, 4) \o Dash \o SubSeq(raw, 5, 6) \o Dash \o SubSeq(raw, 7, 8)
    ELSE Split(raw, "/")[3] \o Dash \o PadLeft2(Split(raw, "/")[1])
             \o Dash \o PadLeft2(Split(raw, "/")[2])

\* The rows read so far that were stored, by the loader's own filter.
Accepted == {j \in 1..(row_i - 1) : RowAccepted(mpFile.rows[j])}

\* C3 as stated: every stored row whose raw date is YYYYMMDD or M/D/YYYY is
\* keyed under YYYY-MM-DD, month and day zero-padded.
C3_DatesNormalized ==
    \A j \in Accepted :
        LET row == mpFile.rows[j]
            raw == GameDate(row)
        IN  IsYYYYMMDD(raw) \/ IsSlashDate(raw) =>
                JoinKey(IsoDate(raw), PeriodOf(row), TimeStr(row))
                    \in DOMAIN mp_goals

\* The coordinate's own input is non-empty and parses.
Parseable(raw) == Truthy(raw) /\ FloatParses(raw)

\* C9 as stated: each stored coordinate is null exactly when its own input
\* is empty or unparseable, and is the parsed value otherwise.
C9_CoordinatesIndependent ==
    \A j \in Accepted :
        LET row == mpFile.rows[j]
            d   == mp_goals[RowKey(row)]
        IN  /\ d.xCoord = NULL <=> ~Parseable(XRaw(row))
            /\ d.yCoord = NULL <=> ~Parseable(YRaw(row))
            /\ Parseable(XRaw(row)) => d.xCoord = FloatOf(XRaw(row))
            /\ Parseable(YRaw(row)) => d.yCoord = FloatOf(YRaw(row))

====
